---- MODULE Spec2Model ----
(***************************************************************************)
(* Model of the uptime monitor in backend/main.py: the target registry     *)
(* (table clients and its in-memory cache CLIENT_URLS), the check history  *)
(* (table status_checks), the probe rounds (monitor_urls_once and          *)
(* check_single_url), the fire-and-forget tasks they create (log_check,    *)
(* trigger_n8n_alert), the registry endpoints, the metrics loop            *)
(* (monitor_system) and the websockets (ConnectionManager and              *)
(* websocket_endpoint).                                                    *)
(*                                                                         *)
(* One action is one stretch of code that asyncio runs without suspending: *)
(* from one await that really suspends to the next.                        *)
(*                                                                         *)
(* Percentages are integers in hundredths of a percent (100.0 is 10000),   *)
(* which is the precision round(x, 2) leaves.  Time is counted in days.    *)
(***************************************************************************)
EXTENDS Integers, Sequences, FiniteSets, Bags, TLC

VARIABLES
    db_clients,             \* table clients: rows <<name, url>> in rowid order
    status_checks,          \* table status_checks: bag of [name, timestamp, status]
    CLIENT_URLS,            \* the in-memory dict name -> url, in insertion order
    url_statuses,           \* state.url_statuses
    previous_url_statuses,  \* state.previous_url_statuses ("none": no key)
    rounds,                 \* the invocations of monitor_urls_once
    scheduled,              \* monitor_urls_once tasks created, not yet started
    log_tasks,              \* log_check tasks created, not yet run: bag of [name, status]
    alerts,                 \* trigger_n8n_alert tasks created so far, per name
    requests,               \* the invocations of the registry endpoints
    now,                    \* the clock of the store, in days
    active_connections,     \* manager.active_connections: list of websockets
    system_stats,           \* state.system_stats: the number of the sample
    endpoints,              \* the invocations of websocket_endpoint
    broadcasts,             \* the invocations of manager.broadcast, per caller
    terminated,             \* the background loops that have ended
    started,                \* rounds, requests, ticks and websockets started
    completed,              \* history: a round has run to its end
    removed,                \* history: the names removed and not added since
    recent,                 \* history: per name, the last probes completed
    probed                  \* history: per name, the number of probes completed

\* the observers' side: the hub, the metrics loop and the state of the loops
hubvars == <<active_connections, system_stats, endpoints, broadcasts,
             terminated>>

vars == <<db_clients, status_checks, CLIENT_URLS, url_statuses,
          previous_url_statuses, rounds, scheduled, log_tasks, alerts,
          requests, now, started, completed, removed, recent,
          probed, hubvars>>

(***************************************************************************)
(* Bounds of the model.                                                    *)
(***************************************************************************)
NumNames == 2       \* target names in use
MaxInFlight == 2    \* invocations of monitor_urls_once running at a time
MaxServing == 2     \* invocations of registry endpoints running at a time
MaxStarted == 3     \* rounds and requests started in a behaviour of Spec
MaxSerial == 3      \* rounds started in a behaviour of SerialSpec
MaxProbed == 1      \* rounds started in a behaviour of ProbeSpec
MaxClocked == 4     \* rounds and requests started in one of ClockSpec
NumSockets == 2     \* websockets that connect in a behaviour of HubSpec
MaxHub == 2         \* rounds, requests and ticks started in one of HubSpec
                    \* or of LoopSpec
MaxSamples == 2     \* samples of psutil told apart
MaxOverlap == 2     \* rounds and requests started in one of OverlapSpec

NamePool == <<"svc1", "svc2", "svc3", "svc4">>
Names == {NamePool[i] : i \in 1..NumNames}
Urls == {"u1", "u2"}
SocketPool == <<"ws1", "ws2", "ws3", "ws4">>
Sockets == {SocketPool[i] : i \in 1..NumSockets}

(***************************************************************************)
(* Sequence helpers.                                                       *)
(***************************************************************************)
RECURSIVE SelectSeqBy(_, _)
\* a list comprehension [x for x in s if x.name # name]
SelectSeqBy(s, name) ==
    IF s = <<>> THEN <<>>
    ELSE IF Head(s).name # name
         THEN <<Head(s)>> \o SelectSeqBy(Tail(s), name)
         ELSE SelectSeqBy(Tail(s), name)

NamesOf(s) == {s[i].name : i \in 1..Len(s)}

RECURSIVE SumOver(_, _)
\* the sum of b[x] over the elements x of the set S
SumOver(b, S) ==
    IF S = {} THEN 0
    ELSE LET x == CHOOSE y \in S : TRUE
         IN  b[x] + SumOver(b, S \ {x})

(***************************************************************************)
(* The store: tables clients and status_checks.                            *)
(***************************************************************************)
\* SELECT name, url FROM clients, as the dict built from the rows
get_db_clients == db_clients

\* INSERT OR REPLACE INTO clients: the row of that name goes, the new row
\* is stored after the others
add_db_client(rows, name, url) ==
    SelectSeqBy(rows, name) \o <<[name |-> name, url |-> url]>>

\* DELETE FROM clients WHERE name = ?
DeleteClientRows(rows, name) == SelectSeqBy(rows, name)

\* DELETE FROM status_checks WHERE name = ?
DeleteCheckRows(checks, name) ==
    [c \in {x \in DOMAIN checks : x.name # name} |-> checks[c]]

\* INSERT INTO status_checks (name, status), timestamp CURRENT_TIMESTAMP
InsertCheck(checks, name, status, t) ==
    checks (+) SetToBag({[name |-> name, timestamp |-> t, status |-> status]})

Window24h == 1      \* datetime('now', '-1 day')
Window7d == 7       \* datetime('now', '-7 days')

\* the rows WHERE name = ? AND timestamp >= datetime('now', -days)
InWindow(checks, name, days, t) ==
    {c \in DOMAIN checks : c.name = name /\ c.timestamp >= t - days}

\* SQL NULL, and a number num/den that is no NULL
Null == <<0, 0>>

\* COUNT(*) FILTER (WHERE status = 'up') * 100.0 / COUNT(*): a division by
\* zero is NULL in SQLite
SelectUptime(checks, name, days, t) ==
    LET rows == InWindow(checks, name, days, t)
        ups == {c \in rows : c.status = "up"}
        all == SumOver(checks, rows)
    IN  IF all = 0 THEN Null ELSE <<SumOver(checks, ups) * 100, all>>

\* fault: an empty window defaults to 0.0
OrDefault_Zero(x) == IF x = Null \/ x[1] = 0 THEN <<0, 1>> ELSE x

\* x or 100.0: None and 0.0 are both false in Python
OrDefault(x) == IF x = Null \/ x[1] = 0 THEN <<100, 1>> ELSE x

\* round(x, 2) of x = num/den, in hundredths (ties to the even neighbour)
Round2(x) ==
    LET n == x[1] * 100
        q == n \div x[2]
        r == n % x[2]
    IN  IF 2 * r < x[2] THEN q
        ELSE IF 2 * r > x[2] THEN q + 1
        ELSE IF q % 2 = 0 THEN q ELSE q + 1

\* one of the two queries of get_uptime_stats, defaulted and rounded
uptime_of(checks, name, days, t) ==
    Round2(OrDefault(SelectUptime(checks, name, days, t)))

(***************************************************************************)
(* check_single_url.  The outcome of client.head is a response with a      *)
(* status code or an exception with a text.                                *)
(***************************************************************************)
None == "None"
NoUptime == [h24 |-> -1, d7 |-> -1]     \* no "uptime" key yet

Response(code) == [kind |-> "response", code |-> code, text |-> None]
Failure(text) == [kind |-> "error", code |-> 0, text |-> text]

\* the outcomes the rounds draw from, and those of ProbeSpec
Outcomes == {Response(200), Response(500), Failure("timeout")}
AllOutcomes ==
    {Response(c) : c \in {199, 200, 399, 400}}
        \cup {Failure("timeout"), Failure("")}

\* fault: 400 counts as up
is_up_Through400(code) == 200 <= code /\ code <= 400

\* 200 <= response.status_code < 400
is_up(code) == 200 <= code /\ code < 400

\* the dict check_single_url builds: in the try block for a response, in
\* the except block for an exception
result_of(name, url, out) ==
    IF out.kind = "response"
    THEN [name |-> name, url |-> url,
          status |-> IF is_up(out.code) THEN "up" ELSE "down",
          status_code |-> out.code, error |-> None, uptime |-> NoUptime]
    ELSE [name |-> name, url |-> url, status |-> "down",
          status_code |-> 0, error |-> out.text, uptime |-> NoUptime]

\* the try block returns its dict: only an exception reaches the code
\* after the except block (log_check, the alert, previous_url_statuses)
ReachesSideEffects(out) == out.kind = "error"

\* fault: a down result alerts whatever the map holds
ShouldAlert_Always(res, prev) == res.status = "down"

\* result["status"] == "down" and previous_url_statuses.get(name) != "down"
ShouldAlert(res, prev) == res.status = "down" /\ prev[res.name] # "down"

(***************************************************************************)
(* ConnectionManager.  A broadcast is called by monitor_system, by a round *)
(* (monitor_urls_once) or by delete_client, and suspends in each send.     *)
(***************************************************************************)
AsSet(s) == {s[i] : i \in 1..Len(s)}

\* get_payload(): the objects it refers to are replaced by assignment and
\* never changed in place once they are in state, so the dict is a value
Payload(system, urls) == [type |-> "update", system |-> system, urls |-> urls]
get_payload == Payload(system_stats, url_statuses)
NoPayload == [type |-> "", system |-> 0, urls |-> <<>>]

System == <<"system", 0>>
RoundCaller(r) == <<"round", r>>
RequestCaller(q) == <<"request", q>>

\* no broadcast running.  Of a running one: the payload, the position next
\* of the list iterator (the elements it has yielded), the connection the
\* send is for, and whether the caller broadcasts again after this one
\* (monitor_urls_once does it twice).  History: the connections in the list
\* ever since it began (stayed), whether the list is still as it was
\* (same), the sends made (sent) and those that raised (failed).
IdleBroadcast ==
    [busy |-> FALSE, payload |-> NoPayload, next |-> 0, to |-> "",
     again |-> FALSE, stayed |-> {}, same |-> TRUE, sent |-> {}, failed |-> {}]

\* fault: the payload is built again for every send
payload_of_Fresh(b, fresh) == fresh

\* payload = self.get_payload(), once, before the loop
payload_of(b, fresh) == b.payload

\* broadcast() from its call to its first await connection.send_json(payload);
\* with no connection it returns without suspending
Begin(conns, payload, again) ==
    IF conns = <<>> THEN IdleBroadcast
    ELSE [busy |-> TRUE, payload |-> payload, next |-> 1, to |-> conns[1],
          again |-> again, stayed |-> AsSet(conns), same |-> TRUE,
          sent |-> {[to |-> conns[1], payload |-> payload]}, failed |-> {}]

\* for connection in self.active_connections, resumed: the list iterator
\* yields the element at its position in the list as it is now, if any
Continue(b, conns, fresh) ==
    [b EXCEPT !.next = @ + 1, !.to = conns[b.next + 1],
              !.sent = @ \cup {[to |-> conns[b.next + 1],
                                payload |-> payload_of(b, fresh)]}]

\* fault: an exception of send_json leaves broadcast()
Caught_Never(ok) == ok

\* try: await connection.send_json(payload) / except Exception: pass
Caught(ok) == TRUE

(***************************************************************************)
(* monitor_urls_once.                                                      *)
(***************************************************************************)
Pending == [name |-> "", url |-> "", status |-> "pending", status_code |-> 0,
            error |-> None, uptime |-> NoUptime]

IdleRound == [pc |-> "idle", periodic |-> FALSE, tasks |-> <<>>, results |-> <<>>,
              i |-> 0, uptime_24h |-> 0]

Rounds == 1..MaxInFlight
InFlight == {r \in Rounds : rounds[r].pc # "idle"}

\* fault: the results are published in the order of the tasks
SortDownFirst_Unsorted(s) == s

\* final_results.sort(key=lambda x: 0 if x["status"] == "down" else 1):
\* a stable sort on a key of two values
SortDownFirst(s) ==
    SelectSeq(s, LAMBDA x : x.status = "down")
        \o SelectSeq(s, LAMBDA x : x.status # "down")

\* manager.broadcast() sends the payload built from state.url_statuses; with
\* no connection open it has nothing to await and changes no state.

\* history of the probes completed for a name: the last three
Remember(h, e) == IF Len(h) < 3 THEN Append(h, e) ELSE Tail(h) \o <<e>>

\* state.url_statuses = final_results and the two await manager.broadcast():
\* with no connection they return at once and the round is over, otherwise
\* the round is suspended in the first send of the first
PublishList(r, periodic, final_results) ==
    /\ url_statuses' = final_results
    /\ IF active_connections = <<>>
       THEN /\ rounds' = [rounds EXCEPT ![r] = IdleRound]
            /\ broadcasts' = broadcasts
            /\ completed' = TRUE
       ELSE /\ rounds' = [rounds EXCEPT ![r] =
                    [IdleRound EXCEPT !.pc = "broadcast", !.periodic = periodic]]
            /\ broadcasts' = [broadcasts EXCEPT ![RoundCaller(r)] =
                    Begin(active_connections, Payload(system_stats, url_statuses'), TRUE)]
            /\ completed' = completed

\* monitor_urls_once starts: one check_single_url per entry of CLIENT_URLS,
\* as the dict is now.  gather() of no task is done at once, so with no
\* client the round publishes the empty list without suspending.
StartRound(r, kind) ==
    /\ rounds[r].pc = "idle"
    /\ \A q \in 1..(r - 1) : rounds[q].pc # "idle"
    /\ kind = "periodic" =>
            /\ \A q \in InFlight : ~rounds[q].periodic
            /\ "monitor_urls" \notin terminated
    /\ IF kind = "spawned"
       THEN scheduled > 0 /\ scheduled' = scheduled - 1
       ELSE scheduled' = scheduled
    /\ IF CLIENT_URLS = <<>>
       THEN PublishList(r, kind = "periodic", <<>>)
       ELSE /\ rounds' = [rounds EXCEPT ![r] =
                    [pc |-> "gather", periodic |-> (kind = "periodic"),
                     tasks |-> CLIENT_URLS,
                     results |-> [i \in 1..Len(CLIENT_URLS) |-> Pending],
                     i |-> 0, uptime_24h |-> 0]]
            /\ url_statuses' = url_statuses
            /\ completed' = completed
            /\ broadcasts' = broadcasts
    /\ started' = started + 1
    /\ UNCHANGED <<active_connections, system_stats, endpoints, terminated>>
    /\ UNCHANGED <<db_clients, status_checks, CLIENT_URLS,
                   previous_url_statuses, log_tasks, alerts, requests, now,
                   removed, recent, probed>>

\* client.head of task i of round r ends with outcome out, and
\* check_single_url runs to its return (track: keep the history of probes)
ProbeDone(r, i, out, track) ==
    /\ rounds[r].pc = "gather"
    /\ i \in 1..Len(rounds[r].tasks)
    /\ rounds[r].results[i].status = "pending"
    /\ LET name == rounds[r].tasks[i].name
           res == result_of(name, rounds[r].tasks[i].url, out)
           effects == ReachesSideEffects(out)
           alert == effects /\ ShouldAlert(res, previous_url_statuses)
           last == \A j \in 1..Len(rounds[r].tasks) :
                        j # i => rounds[r].results[j].status # "pending"
       IN  /\ rounds' = [rounds EXCEPT ![r].results[i] = res,
                                       ![r].pc = IF last THEN "q24" ELSE "gather",
                                       ![r].i = IF last THEN 1 ELSE 0]
           /\ log_tasks' = IF effects
                THEN log_tasks (+) SetToBag({[name |-> name, status |-> res.status]})
                ELSE log_tasks
           /\ alerts' = IF alert THEN [alerts EXCEPT ![name] = @ + 1] ELSE alerts
           /\ previous_url_statuses' = IF effects
                THEN [previous_url_statuses EXCEPT ![name] = res.status]
                ELSE previous_url_statuses
           /\ recent' = IF track
                THEN [recent EXCEPT ![name] = Remember(@,
                        [status |-> res.status, cause |-> out.kind,
                         alerted |-> alert])]
                ELSE recent
           /\ probed' = IF track THEN [probed EXCEPT ![name] = @ + 1] ELSE probed
    /\ UNCHANGED hubvars
    /\ UNCHANGED <<db_clients, status_checks, CLIENT_URLS, url_statuses,
                   scheduled, requests, now, started, removed,
                   completed>>

\* get_uptime_stats(res["name"]): the query over the last 24 hours
Query24h(r) ==
    /\ rounds[r].pc = "q24"
    /\ rounds' = [rounds EXCEPT
            ![r].uptime_24h = uptime_of(status_checks,
                    rounds[r].results[rounds[r].i].name, Window24h, now),
            ![r].pc = "q7d"]
    /\ UNCHANGED hubvars
    /\ UNCHANGED <<db_clients, status_checks, CLIENT_URLS, url_statuses,
                   previous_url_statuses, scheduled, log_tasks, alerts,
                   requests, now, started, removed, recent, probed,
                   completed>>

\* get_uptime_stats(res["name"]): the query over the last 7 days, and
\* res["uptime"] = stats
Query7d(r) ==
    /\ rounds[r].pc = "q7d"
    /\ LET i == rounds[r].i
           stats == [h24 |-> rounds[r].uptime_24h,
                     d7 |-> uptime_of(status_checks,
                                rounds[r].results[i].name, Window7d, now)]
       IN  rounds' = [rounds EXCEPT
                ![r].results[i].uptime = stats,
                ![r].uptime_24h = 0,
                ![r].i = IF i < Len(rounds[r].results) THEN i + 1 ELSE 0,
                ![r].pc = IF i < Len(rounds[r].results) THEN "q24" ELSE "publish"]
    /\ UNCHANGED hubvars
    /\ UNCHANGED <<db_clients, status_checks, CLIENT_URLS, url_statuses,
                   previous_url_statuses, scheduled, log_tasks, alerts,
                   requests, now, started, removed, recent, probed,
                   completed>>

\* final_results.sort(...); state.url_statuses = final_results; broadcast
Publish(r) ==
    /\ rounds[r].pc = "publish"
    /\ PublishList(r, rounds[r].periodic, SortDownFirst(rounds[r].results))
    /\ UNCHANGED <<active_connections, system_stats, endpoints, terminated>>
    /\ UNCHANGED <<db_clients, status_checks, CLIENT_URLS,
                   previous_url_statuses, scheduled, log_tasks, alerts,
                   requests, now, started, removed, recent, probed>>

\* a log_check task runs
LogCheck(t) ==
    /\ BagIn(t, log_tasks)
    /\ status_checks' = InsertCheck(status_checks, t.name, t.status, now)
    /\ log_tasks' = log_tasks (-) SetToBag({t})
    /\ UNCHANGED hubvars
    /\ UNCHANGED <<db_clients, CLIENT_URLS, url_statuses,
                   previous_url_statuses, rounds, scheduled, alerts,
                   requests, now, started, removed, recent, probed,
                   completed>>

\* a log_check task raises (the store fails): the task ends, nothing is
\* inserted and no one awaits it
LogCheckFails(t) ==
    /\ BagIn(t, log_tasks)
    /\ log_tasks' = log_tasks (-) SetToBag({t})
    /\ UNCHANGED hubvars
    /\ UNCHANGED <<db_clients, status_checks, CLIENT_URLS, url_statuses,
                   previous_url_statuses, rounds, scheduled, alerts,
                   requests, now, started, removed, recent, probed,
                   completed>>

(***************************************************************************)
(* The registry endpoints: add_client, import_clients, delete_client.      *)
(* Each writes the store, reads the table back and then assigns the dict   *)
(* CLIENT_URLS, with awaits in between.                                    *)
(***************************************************************************)
IdleRequest == [pc |-> "idle", op |-> "", name |-> "", items |-> <<>>,
                clients |-> <<>>]

Requests == 1..MaxServing
Serving == {q \in Requests : requests[q].pc # "idle"}

\* a request arrives and is served by a handler of its own
StartRequest(q) ==
    /\ requests[q].pc = "idle"
    /\ \A p \in 1..(q - 1) : requests[p].pc # "idle"
    /\ started' = started + 1

Item(name, url) == [name |-> name, url |-> url]

\* the bodies of the import requests
ImportMaps ==
    {<<>>,
     <<Item(NamePool[1], "u2"), Item(NamePool[2], "u2")>>,
     <<Item(NamePool[2], "u2"), Item(NamePool[1], "u1")>>}

\* add_client: await add_db_client(client.name, client.url)
AddClient(q, name, url) ==
    /\ StartRequest(q)
    /\ db_clients' = add_db_client(db_clients, name, url)
    /\ requests' = [requests EXCEPT ![q] =
            [IdleRequest EXCEPT !.pc = "read", !.op = "add", !.name = name]]
    /\ removed' = removed \ {name}
    /\ UNCHANGED hubvars
    /\ UNCHANGED <<status_checks, CLIENT_URLS, url_statuses,
                   previous_url_statuses, rounds, scheduled, log_tasks,
                   alerts, now, recent, probed,
                   completed>>

\* import_clients starts: with an empty body the loop is skipped, otherwise
\* the first await add_db_client(name, url)
ImportClients(q, items) ==
    /\ StartRequest(q)
    /\ IF items = <<>>
       THEN /\ db_clients' = db_clients
            /\ removed' = removed
            /\ requests' = [requests EXCEPT ![q] =
                    [IdleRequest EXCEPT !.pc = "read", !.op = "import"]]
       ELSE /\ db_clients' = add_db_client(db_clients, Head(items).name,
                                           Head(items).url)
            /\ removed' = removed \ {Head(items).name}
            /\ requests' = [requests EXCEPT ![q] =
                    [IdleRequest EXCEPT
                        !.pc = IF Tail(items) = <<>> THEN "read" ELSE "import",
                        !.op = "import", !.items = Tail(items)]]
    /\ UNCHANGED hubvars
    /\ UNCHANGED <<status_checks, CLIENT_URLS, url_statuses,
                   previous_url_statuses, rounds, scheduled, log_tasks,
                   alerts, now, recent, probed,
                   completed>>

\* import_clients: the next await add_db_client(name, url) of the loop
ImportNext(q) ==
    /\ requests[q].pc = "import"
    /\ LET items == requests[q].items
       IN  /\ db_clients' = add_db_client(db_clients, Head(items).name,
                                          Head(items).url)
           /\ removed' = removed \ {Head(items).name}
           /\ requests' = [requests EXCEPT
                    ![q].pc = IF Tail(items) = <<>> THEN "read" ELSE "import",
                    ![q].items = Tail(items)]
    /\ UNCHANGED hubvars
    /\ UNCHANGED <<status_checks, CLIENT_URLS, url_statuses,
                   previous_url_statuses, rounds, scheduled, log_tasks,
                   alerts, now, started, recent, probed,
                   completed>>

\* delete_client: await remove_db_client(name), one transaction
DeleteClient(q, name) ==
    /\ StartRequest(q)
    /\ db_clients' = DeleteClientRows(db_clients, name)
    /\ status_checks' = DeleteCheckRows(status_checks, name)
    /\ requests' = [requests EXCEPT ![q] =
            [IdleRequest EXCEPT !.pc = "read", !.op = "delete", !.name = name]]
    /\ UNCHANGED hubvars
    /\ UNCHANGED <<CLIENT_URLS, url_statuses, previous_url_statuses, rounds,
                   scheduled, log_tasks, alerts, now, removed, recent, probed,
                   completed>>

\* the query of await get_db_clients() in any of the three
ReadClients(q) ==
    /\ requests[q].pc = "read"
    /\ requests' = [requests EXCEPT ![q].clients = get_db_clients,
                                    ![q].pc = "assign"]
    /\ UNCHANGED hubvars
    /\ UNCHANGED <<db_clients, status_checks, CLIENT_URLS, url_statuses,
                   previous_url_statuses, rounds, scheduled, log_tasks,
                   alerts, now, started, removed, recent, probed,
                   completed>>

\* history: delete_client(name) has returned
Removed(name) ==
    IF name \in NamesOf(db_clients) THEN removed ELSE removed \cup {name}

\* CLIENT_URLS = ..., and the rest of the endpoint up to its return: add and
\* import create the task monitor_urls_once(), delete filters
\* state.url_statuses and broadcasts (suspended in its first send when a
\* connection is open)
AssignClients(q) ==
    /\ requests[q].pc = "assign"
    /\ CLIENT_URLS' = requests[q].clients
    /\ IF requests[q].op = "delete"
       THEN /\ url_statuses' = SelectSeqBy(url_statuses, requests[q].name)
            /\ scheduled' = scheduled
            /\ IF active_connections = <<>>
               THEN /\ requests' = [requests EXCEPT ![q] = IdleRequest]
                    /\ removed' = Removed(requests[q].name)
                    /\ broadcasts' = broadcasts
               ELSE /\ requests' = [requests EXCEPT ![q].pc = "broadcast"]
                    /\ removed' = removed
                    /\ broadcasts' = [broadcasts EXCEPT ![RequestCaller(q)] =
                            Begin(active_connections, Payload(system_stats, url_statuses'), FALSE)]
       ELSE /\ url_statuses' = url_statuses
            /\ scheduled' = scheduled + 1
            /\ removed' = removed
            /\ requests' = [requests EXCEPT ![q] = IdleRequest]
            /\ broadcasts' = broadcasts
    /\ UNCHANGED <<active_connections, system_stats, endpoints, terminated>>
    /\ UNCHANGED <<db_clients, status_checks, previous_url_statuses, rounds,
                   log_tasks, alerts, now, started, recent, probed,
                   completed>>

\* the days at which the clock is looked at: a record of day 0 is then
\* 1, 2 and 8 days old, one of day 1 is 1 and 7 days old
Days == {0, 1, 2, 8}

\* time passes, up to the next of these days
Tick ==
    /\ \E d \in Days : d > now
    /\ now' = CHOOSE d \in Days : d > now /\ \A e \in Days : e > now => d <= e
    /\ UNCHANGED hubvars
    /\ UNCHANGED <<db_clients, status_checks, CLIENT_URLS, url_statuses,
                   previous_url_statuses, rounds, scheduled, log_tasks,
                   alerts, requests, started, removed, recent, probed,
                   completed>>

(***************************************************************************)
(* The callers of manager.broadcast() resumed from a send, monitor_system  *)
(* and websocket_endpoint.                                                 *)
(***************************************************************************)
Callers ==
    {System} \cup {RoundCaller(r) : r \in Rounds}
        \cup {RequestCaller(q) : q \in Requests}

\* a connection enters or leaves the list while broadcasts are suspended
Disturbed(bs, w) ==
    [c \in Callers |->
        IF bs[c].busy
        THEN [bs[c] EXCEPT !.stayed = @ \ {w}, !.same = FALSE]
        ELSE bs[c]]

\* fault: a round that fails publishes the results it has
Abandoned_Partial(r, current) ==
    SortDownFirst(SelectSeq(rounds[r].results, LAMBDA x : x.uptime # NoUptime))

\* a failure between the calls of get_uptime_stats and line 376 leaves
\* monitor_urls_once before state.url_statuses is assigned
Abandoned(r, current) == current

\* what an exception that leaves monitor_urls_once ends: the loop
\* monitor_urls when it is the caller (it has no try), else only the
\* request of /api/refresh or the task created by add or import
Ended(r) == IF rounds[r].periodic THEN terminated \cup {"monitor_urls"}
            ELSE terminated

\* the caller of a broadcast goes on: it stays suspended in a send, or the
\* broadcast has returned, or it has raised
Resume(c, how) ==
    IF c = System
    THEN \* monitor_system: await asyncio.sleep, also from its except block
         UNCHANGED <<rounds, requests, completed, removed, terminated>>
    ELSE IF c[1] = "round"
    THEN /\ rounds' = IF how = "suspended" THEN rounds
                      ELSE [rounds EXCEPT ![c[2]] = IdleRound]
         /\ completed' = IF how = "returned" THEN TRUE ELSE completed
         /\ terminated' = IF how = "raised" THEN Ended(c[2]) ELSE terminated
         /\ UNCHANGED <<requests, removed>>
    ELSE /\ requests' = IF how = "suspended" THEN requests
                        ELSE [requests EXCEPT ![c[2]] = IdleRequest]
         /\ removed' = IF how = "returned"
                       THEN Removed(requests[c[2]].name) ELSE removed
         /\ UNCHANGED <<rounds, completed, terminated>>

\* await connection.send_json(payload) of the broadcast of caller c ends,
\* by returning (ok) or by raising, and the loop goes to the next
\* connection or broadcast() returns; monitor_urls_once then calls it again
SendDone(c, ok) ==
    /\ broadcasts[c].busy
    /\ LET b == IF ok THEN broadcasts[c]
                ELSE [broadcasts[c] EXCEPT !.failed = @ \cup {broadcasts[c].to}]
           second == Begin(active_connections, get_payload, FALSE)
       IN  IF ~ok /\ ~Caught(ok)
           THEN /\ broadcasts' = [broadcasts EXCEPT ![c] = IdleBroadcast]
                /\ Resume(c, "raised")
           ELSE IF b.next < Len(active_connections)
           THEN /\ broadcasts' = [broadcasts EXCEPT ![c] =
                        Continue(b, active_connections, get_payload)]
                /\ Resume(c, "suspended")
           ELSE IF b.again /\ second.busy
           THEN /\ broadcasts' = [broadcasts EXCEPT ![c] = second]
                /\ Resume(c, "suspended")
           ELSE /\ broadcasts' = [broadcasts EXCEPT ![c] = IdleBroadcast]
                /\ Resume(c, "returned")
    /\ UNCHANGED <<active_connections, system_stats, endpoints>>
    /\ UNCHANGED <<db_clients, status_checks, CLIENT_URLS, url_statuses,
                   previous_url_statuses, scheduled, log_tasks, alerts, now,
                   started, recent, probed>>

\* one pass of the loop of monitor_system: psutil samples the host (ok) or
\* raises; a sample replaces state.system_stats and is broadcast, an
\* exception is logged; then the loop sleeps.  The samples are numbered
\* 1..MaxSamples, in a cycle.  (counted: the pass uses up the budget of the
\* specification)
SystemTick(ok, counted) ==
    /\ "monitor_system" \notin terminated
    /\ ~broadcasts[System].busy
    /\ IF ok
       THEN /\ system_stats' = (system_stats % MaxSamples) + 1
            /\ broadcasts' = [broadcasts EXCEPT ![System] =
                    Begin(active_connections,
                          Payload(system_stats', url_statuses), FALSE)]
       ELSE UNCHANGED <<system_stats, broadcasts>>
    /\ started' = IF counted THEN started + 1 ELSE started
    /\ UNCHANGED <<active_connections, endpoints, terminated>>
    /\ UNCHANGED <<db_clients, status_checks, CLIENT_URLS, url_statuses,
                   previous_url_statuses, rounds, scheduled, log_tasks,
                   alerts, requests, now, completed, removed, recent, probed>>

\* get_uptime_stats raises in round r (the store fails): the exception
\* leaves monitor_urls_once
QueryFails(r) ==
    /\ rounds[r].pc \in {"q24", "q7d"}
    /\ url_statuses' = Abandoned(r, url_statuses)
    /\ rounds' = [rounds EXCEPT ![r] = IdleRound]
    /\ terminated' = Ended(r)
    /\ UNCHANGED <<active_connections, system_stats, endpoints, broadcasts>>
    /\ UNCHANGED <<db_clients, status_checks, CLIENT_URLS,
                   previous_url_statuses, scheduled, log_tasks, alerts,
                   requests, now, started, completed, removed, recent,
                   probed>>

\* websocket_endpoint, manager.connect resumed from websocket.accept(): the
\* websocket is appended and the first payload is sent
Connect(w) ==
    /\ endpoints[w] = "new"
    /\ active_connections' = Append(active_connections, w)
    /\ endpoints' = [endpoints EXCEPT ![w] = "greet"]
    /\ broadcasts' = Disturbed(broadcasts, w)
    /\ UNCHANGED <<system_stats, terminated>>
    /\ UNCHANGED <<db_clients, status_checks, CLIENT_URLS, url_statuses,
                   previous_url_statuses, rounds, scheduled, log_tasks,
                   alerts, requests, now, started, completed, removed,
                   recent, probed>>

\* the send_json of manager.connect ends: the endpoint enters its loop of
\* receive_text, or the exception leaves websocket_endpoint (connect is
\* called outside its try)
Greeted(w, ok) ==
    /\ endpoints[w] = "greet"
    /\ endpoints' = [endpoints EXCEPT ![w] = IF ok THEN "receive" ELSE "raised"]
    /\ UNCHANGED <<active_connections, system_stats, broadcasts, terminated>>
    /\ UNCHANGED <<db_clients, status_checks, CLIENT_URLS, url_statuses,
                   previous_url_statuses, rounds, scheduled, log_tasks,
                   alerts, requests, now, started, completed, removed,
                   recent, probed>>

\* receive_text raises WebSocketDisconnect: manager.disconnect(websocket)
Disconnect(w) ==
    /\ endpoints[w] = "receive"
    /\ active_connections' = SelectSeq(active_connections, LAMBDA x : x # w)
    /\ endpoints' = [endpoints EXCEPT ![w] = "closed"]
    /\ broadcasts' = Disturbed(broadcasts, w)
    /\ UNCHANGED <<system_stats, terminated>>
    /\ UNCHANGED <<db_clients, status_checks, CLIENT_URLS, url_statuses,
                   previous_url_statuses, rounds, scheduled, log_tasks,
                   alerts, requests, now, started, completed, removed,
                   recent, probed>>

(***************************************************************************)
(* The state after startup_event: the dict is the table as the store holds *)
(* it, no round has run.                                                   *)
(***************************************************************************)
InitRegistries ==
    {<<>>, [i \in 1..NumNames |-> Item(NamePool[i], "u1")]}

InitWith(registry) ==
    /\ db_clients = registry
    /\ CLIENT_URLS = db_clients
    /\ status_checks = EmptyBag
    /\ url_statuses = <<>>
    /\ previous_url_statuses = [n \in Names |-> "none"]
    /\ rounds = [r \in Rounds |-> IdleRound]
    /\ scheduled = 0
    /\ log_tasks = EmptyBag
    /\ alerts = [n \in Names |-> 0]
    /\ requests = [q \in Requests |-> IdleRequest]
    /\ now = 0
    /\ started = 0
    /\ completed = FALSE
    /\ removed = {}
    /\ recent = [n \in Names |-> <<>>]
    /\ probed = [n \in Names |-> 0]
    /\ active_connections = <<>>
    /\ system_stats = 0
    /\ endpoints = [w \in Sockets |-> "new"]
    /\ broadcasts = [c \in Callers |-> IdleBroadcast]
    /\ terminated = {}

Init == \E registry \in InitRegistries : InitWith(registry)

(***************************************************************************)
(* Spec: the periodic loop monitor_urls, POST /api/refresh, the rounds     *)
(* created by add and import, and the registry endpoints, all free to      *)
(* overlap, within one day of the clock.                                   *)
(***************************************************************************)
Next ==
    \/ \E r \in Rounds : \E kind \in {"periodic", "refresh", "spawned"} :
            started < MaxStarted /\ StartRound(r, kind)
    \/ \E q \in Requests : \E n \in Names : \E u \in Urls :
            started < MaxStarted /\ AddClient(q, n, u)
    \/ \E q \in Requests : \E m \in ImportMaps :
            started < MaxStarted /\ ImportClients(q, m)
    \/ \E q \in Requests : \E n \in Names :
            started < MaxStarted /\ DeleteClient(q, n)
    \/ \E r \in Rounds : \E i \in 1..NumNames : \E out \in Outcomes :
            ProbeDone(r, i, out, FALSE)
    \/ \E r \in Rounds : Query24h(r)
    \/ \E r \in Rounds : Query7d(r)
    \/ \E r \in Rounds : Publish(r)
    \/ \E t \in BagToSet(log_tasks) : LogCheck(t)
    \/ \E q \in Requests : ImportNext(q)
    \/ \E q \in Requests : ReadClients(q)
    \/ \E q \in Requests : AssignClients(q)

Spec == Init /\ [][Next]_vars

(***************************************************************************)
(* SerialSpec: the rounds of the periodic loop and of POST /api/refresh,   *)
(* one at a time (the next starts when the last has published), over the   *)
(* registry as it was at startup.  The tasks log_check stay                *)
(* fire-and-forget.  The history of probes is kept.                        *)
(***************************************************************************)
Quiet == InFlight = {} /\ Serving = {}

SerialNext ==
    \/ \E r \in Rounds : \E kind \in {"periodic", "refresh"} :
            started < MaxSerial /\ Quiet /\ StartRound(r, kind)
    \/ \E r \in Rounds : \E i \in 1..NumNames : \E out \in Outcomes :
            ProbeDone(r, i, out, TRUE)
    \/ \E r \in Rounds : Query24h(r)
    \/ \E r \in Rounds : Query7d(r)
    \/ \E r \in Rounds : Publish(r)
    \/ \E t \in BagToSet(log_tasks) : LogCheck(t)

SerialSpec == Init /\ [][SerialNext]_vars

(***************************************************************************)
(* ProbeSpec: the first rounds after startup, one at a time, with the      *)
(* outcomes of client.head drawn from AllOutcomes.                         *)
(***************************************************************************)
ProbeNext ==
    \/ \E r \in Rounds :
            started < MaxProbed /\ Quiet /\ StartRound(r, "periodic")
    \/ \E r \in Rounds : \E i \in 1..NumNames : \E out \in AllOutcomes :
            ProbeDone(r, i, out, FALSE)
    \/ \E r \in Rounds : Query24h(r)
    \/ \E r \in Rounds : Query7d(r)
    \/ \E r \in Rounds : Publish(r)
    \/ \E t \in BagToSet(log_tasks) : LogCheck(t)

ProbeSpec == Init /\ [][ProbeNext]_vars

(***************************************************************************)
(* ClockSpec: the history of one target over the days.  The target is      *)
(* probed by rounds, removed and added again, one round or request at a    *)
(* time.  A round or a request lasts seconds, so the days pass between     *)
(* them; a task log_check may still run late.                              *)
(***************************************************************************)
ClockInit == InitWith(<<Item(NamePool[1], "u1")>>)

ClockNext ==
    \/ \E r \in Rounds : \E kind \in {"periodic", "spawned"} :
            started < MaxClocked /\ Quiet /\ StartRound(r, kind)
    \/ \E q \in Requests :
            started < MaxClocked /\ Quiet /\ AddClient(q, NamePool[1], "u1")
    \/ \E q \in Requests :
            started < MaxClocked /\ Quiet /\ DeleteClient(q, NamePool[1])
    \/ \E r \in Rounds : \E out \in {Response(200), Failure("timeout")} :
            ProbeDone(r, 1, out, FALSE)
    \/ \E r \in Rounds : Query24h(r)
    \/ \E r \in Rounds : Query7d(r)
    \/ \E r \in Rounds : Publish(r)
    \/ \E t \in BagToSet(log_tasks) : LogCheck(t)
    \/ \E q \in Requests : ReadClients(q)
    \/ \E q \in Requests : AssignClients(q)
    \/ Quiet /\ Tick

ClockSpec == ClockInit /\ [][ClockNext]_vars

(***************************************************************************)
(* HubSpec: the observers.  Websockets connect and disconnect while        *)
(* monitor_system ticks and the rounds of the periodic loop probe one      *)
(* target, which a request may remove; every send of a broadcast may       *)
(* raise, and so may psutil and the store.                                 *)
(***************************************************************************)
HubNext ==
    \/ \E w \in Sockets : Connect(w)
    \/ \E w \in Sockets : Greeted(w, TRUE)
    \/ \E w \in Sockets : Disconnect(w)
    \/ started < MaxHub /\ SystemTick(TRUE, TRUE)
    \/ \E r \in Rounds :
            started < MaxHub /\ Quiet /\ StartRound(r, "periodic")
    \/ \E c \in Callers : \E ok \in BOOLEAN : SendDone(c, ok)
    \/ \E r \in Rounds : ProbeDone(r, 1, Response(200), FALSE)
    \/ \E r \in Rounds : Query24h(r)
    \/ \E r \in Rounds : Query7d(r)
    \/ \E r \in Rounds : Publish(r)

HubSpec == ClockInit /\ [][HubNext]_vars

(***************************************************************************)
(* DropSpec: the lives of the websockets.  They connect, the first send    *)
(* of connect returns or raises, monitor_system ticks and broadcasts       *)
(* without end, and sends raise.  The event loop runs every task that can  *)
(* run, and every websocket whose endpoint waits in receive_text is closed *)
(* by its peer in the end.                                                 *)
(***************************************************************************)
DropNext ==
    \/ \E w \in Sockets : Connect(w)
    \/ \E w \in Sockets : \E ok \in BOOLEAN : Greeted(w, ok)
    \/ \E w \in Sockets : Disconnect(w)
    \/ SystemTick(TRUE, FALSE)
    \/ \E c \in Callers : \E ok \in BOOLEAN : SendDone(c, ok)

DropFairness ==
    /\ WF_vars(SystemTick(TRUE, FALSE))
    /\ \A w \in Sockets : WF_vars(\E ok \in BOOLEAN : Greeted(w, ok))
    /\ \A w \in Sockets : WF_vars(Disconnect(w))
    /\ \A c \in Callers : WF_vars(\E ok \in BOOLEAN : SendDone(c, ok))

DropSpec == ClockInit /\ [][DropNext]_vars /\ DropFairness

(***************************************************************************)
(* LoopSpec: the two loops and what can fail in a pass: client.head, the   *)
(* store (log_check, get_uptime_stats), psutil, and the send to the one    *)
(* websocket.  The rounds are those of the periodic loop and of POST       *)
(* /api/refresh, one at a time, over one target, which a request may       *)
(* remove.  trigger_n8n_alert runs as a task of its own and catches what   *)
(* its POST raises.                                                        *)
(***************************************************************************)
LoopNext ==
    \/ Connect(SocketPool[1])
    \/ \E ok \in BOOLEAN : Greeted(SocketPool[1], ok)
    \/ Disconnect(SocketPool[1])
    \/ \E ok \in BOOLEAN : started < MaxHub /\ SystemTick(ok, TRUE)
    \/ \E r \in Rounds : \E kind \in {"periodic", "refresh"} :
            started < MaxHub /\ Quiet /\ StartRound(r, kind)
    \/ \E q \in Requests :
            started < MaxHub /\ Quiet /\ DeleteClient(q, NamePool[1])
    \/ \E q \in Requests : ReadClients(q)
    \/ \E q \in Requests : AssignClients(q)
    \/ \E c \in Callers : \E ok \in BOOLEAN : SendDone(c, ok)
    \/ \E r \in Rounds : \E out \in {Response(200), Failure("timeout")} :
            ProbeDone(r, 1, out, FALSE)
    \/ \E r \in Rounds : Query24h(r)
    \/ \E r \in Rounds : Query7d(r)
    \/ \E r \in Rounds : QueryFails(r)
    \/ \E r \in Rounds : Publish(r)
    \/ \E t \in BagToSet(log_tasks) : LogCheck(t)
    \/ \E t \in BagToSet(log_tasks) : LogCheckFails(t)

LoopSpec == ClockInit /\ [][LoopNext]_vars

(***************************************************************************)
(* OverlapSpec: rounds that overlap.  The periodic loop, POST /api/refresh *)
(* and the removal of a target run over a registry of two targets, every   *)
(* probe may fail and so may the store in get_uptime_stats.                *)
(***************************************************************************)
OverlapInit == InitWith(<<Item(NamePool[1], "u1"), Item(NamePool[2], "u1")>>)

OverlapNext ==
    \/ \E r \in Rounds : \E kind \in {"periodic", "refresh"} :
            started < MaxOverlap /\ StartRound(r, kind)
    \/ \E q \in Requests : \E i \in 1..2 :
            started < MaxOverlap /\ DeleteClient(q, NamePool[i])
    \/ \E r \in Rounds : \E i \in 1..2 :
        \E out \in {Response(200), Failure("timeout")} :
            ProbeDone(r, i, out, FALSE)
    \/ \E r \in Rounds : Query24h(r)
    \/ \E r \in Rounds : Query7d(r)
    \/ \E r \in Rounds : QueryFails(r)
    \/ \E r \in Rounds : Publish(r)
    \/ \E t \in BagToSet(log_tasks) : LogCheck(t)
    \/ \E q \in Requests : ReadClients(q)
    \/ \E q \in Requests : AssignClients(q)

OverlapSpec == OverlapInit /\ [][OverlapNext]_vars

(***************************************************************************)
(* The claims.                                                             *)
(***************************************************************************)
Statuses(h) == [k \in 1..Len(h) |-> h[k].status]

\* the number of rows of status_checks for a name
RecordsOf(n) == SumOver(status_checks, {c \in DOMAIN status_checks : c.name = n})

\* C1: a target probed up, down, down in three consecutive rounds gets one
\* alert, from the first down probe, and none from the second, whether it
\* is down by its HTTP code or by a transport failure.
C1_OneAlertOnFirstDown ==
    \A n \in Names :
        Statuses(recent[n]) = <<"up", "down", "down">>
            => recent[n][2].alerted /\ ~recent[n][3].alerted

\* C2: a target probed down, up, down in successive rounds gets a new alert
\* from the second down probe.
C2_AlertRearmsAfterRecovery ==
    \A n \in Names :
        Statuses(recent[n]) = <<"down", "up", "down">> => recent[n][3].alerted

\* C3: every completed probe appends one CheckRecord, so once the rounds
\* and their log_check tasks have run, a target has as many records as
\* probes completed for it.
C3_OneRecordPerProbe ==
    (Quiet /\ log_tasks = EmptyBag) =>
        \A n \in Names : RecordsOf(n) = probed[n]

\* the name get_uptime_stats is asked about in round r
Asked(r) == rounds[r].results[rounds[r].i].name

\* h hundredths is ups / all * 100 to two decimals
IsRatio(h, ups, all) ==
    LET d == h * all - ups * 10000
    IN  2 * (IF d < 0 THEN -d ELSE d) <= all

UpsIn(W) == SumOver(status_checks, {c \in W : c.status = "up"})
AllIn(W) == SumOver(status_checks, W)

\* C4: for a window holding at least one record of the target, each query
\* of get_uptime_stats returns the share of up records among the records of
\* the window, times 100; 0.0 when they are all down.
C4_UptimeIsRatio ==
    [][\A r \in Rounds :
        /\ (rounds[r].pc = "q24" /\ rounds'[r].pc = "q7d") =>
            LET W == InWindow(status_checks, Asked(r), Window24h, now)
            IN  W # {} => IsRatio(rounds'[r].uptime_24h, UpsIn(W), AllIn(W))
        /\ (rounds[r].pc = "q7d" /\ rounds'[r].pc # "q7d") =>
            LET W == InWindow(status_checks, Asked(r), Window7d, now)
            IN  W # {} => IsRatio(rounds'[r].results[rounds[r].i].uptime.d7,
                                  UpsIn(W), AllIn(W))]_vars

\* C5: for a target with no record in a window (never probed, all records
\* older than the window, or purged), the query of get_uptime_stats over
\* that window returns 100.0.
C5_EmptyWindowIs100 ==
    [][\A r \in Rounds :
        /\ (rounds[r].pc = "q24" /\ rounds'[r].pc = "q7d"
                /\ InWindow(status_checks, Asked(r), Window24h, now) = {})
            => rounds'[r].uptime_24h = 10000
        /\ (rounds[r].pc = "q7d" /\ rounds'[r].pc # "q7d"
                /\ InWindow(status_checks, Asked(r), Window7d, now) = {})
            => rounds'[r].results[rounds[r].i].uptime.d7 = 10000]_vars

\* C5 witness: the 24 hour query has answered 100.0 for a target whose
\* records are all older than a day
C5_Witness ==
    \E r \in Rounds :
        /\ rounds[r].pc = "q7d"
        /\ RecordsOf(Asked(r)) > 0
        /\ InWindow(status_checks, Asked(r), Window24h, now) = {}
        /\ rounds[r].uptime_24h = 10000

\* C6: check_single_url turns a response with a code in [200,400) into
\* status up with that code and no error, a response with another code
\* into status down with that code, and a transport failure into status
\* down, status_code 0 and the text of the error; the round always gets a
\* result.
C6_Classification ==
    [][\A r \in Rounds : \A i \in 1..NumNames : \A out \in AllOutcomes :
        ProbeDone(r, i, out, FALSE) =>
            LET res == rounds'[r].results[i]
            IN  /\ res.name = rounds[r].tasks[i].name
                /\ out.kind = "response" /\ out.code \in 200..399 =>
                    res.status = "up" /\ res.status_code = out.code
                        /\ res.error = None
                /\ out.kind = "response" /\ out.code \notin 200..399 =>
                    res.status = "down" /\ res.status_code = out.code
                /\ out.kind = "error" =>
                    res.status = "down" /\ res.status_code = 0
                        /\ res.error = out.text]_vars

\* C6 witness: one round holds an up result of code 399, and a down result
\* of code 400
C6_Witness ==
    \E r \in Rounds : \E i, j \in 1..Len(rounds[r].results) :
        /\ rounds[r].results[i].status = "up"
        /\ rounds[r].results[i].status_code = 399
        /\ rounds[r].results[j].status = "down"
        /\ rounds[r].results[j].status_code = 400

\* C7: in state.url_statuses no entry of status up precedes an entry of
\* status down, after every round, overlapping or not, and every removal.
C7_DownFirst ==
    \A i, j \in 1..Len(url_statuses) :
        i < j => ~(url_statuses[i].status = "up"
                    /\ url_statuses[j].status = "down")

\* C7 witness: the first round over the registry <<svc1, svc2>> has found
\* svc1 up and svc2 down and published svc2 before svc1
C7_Witness ==
    /\ started = 1
    /\ Len(url_statuses) = 2
    /\ url_statuses[1].name = NamePool[2] /\ url_statuses[1].status = "down"
    /\ url_statuses[2].name = NamePool[1] /\ url_statuses[2].status = "up"

\* C8: when a round has completed and no round, scheduled round or registry
\* request is in flight, state.url_statuses holds exactly one result for
\* every registered target (stated for the states where the dict
\* CLIENT_URLS agrees with the table clients, so that it is the rounds that
\* are put to the test).
C8_ResultForEveryTarget ==
    (completed /\ Quiet /\ scheduled = 0 /\ CLIENT_URLS = db_clients) =>
        /\ NamesOf(url_statuses) = NamesOf(db_clients)
        /\ Len(url_statuses) = Len(db_clients)

\* C9: once delete_client(name) has returned and the name has not been
\* added again, state.url_statuses holds no entry of that name.
C9_RemovedStaysOut ==
    \A n \in removed : n \notin NamesOf(url_statuses)

\* C10: once delete_client(name) has returned and the name has not been
\* added again, status_checks holds no record of that name.
C10_RemovedHasNoHistory ==
    \A n \in removed : RecordsOf(n) = 0

\* the dict a sequence of rows or of items stands for
AsDict(s) == {s[i] : i \in 1..Len(s)}

\* C13: every registry endpoint, add_client, import_clients and
\* delete_client alike, has created a task monitor_urls_once() when it
\* returns.
C13_MutationSchedulesRound ==
    [][\A q \in Requests : AssignClients(q) => scheduled' = scheduled + 1]_vars

\* C17: when check_single_url returns, previous_url_statuses[name] is the
\* status of the result it returns, up or down.
C17_PreviousIsLastStatus ==
    [][\A r \in Rounds : \A i \in 1..NumNames : \A out \in Outcomes :
        ProbeDone(r, i, out, TRUE) =>
            previous_url_statuses'[rounds[r].tasks[i].name]
                = rounds'[r].results[i].status]_vars

\* C20: when no registry endpoint is running, the dict CLIENT_URLS holds the
\* rows of the table clients.
C20_CacheIsRegistry ==
    Serving = {} => AsDict(CLIENT_URLS) = AsDict(db_clients)

\* the connections a broadcast has called send_json for
Attempted(b) == {e.to : e \in b.sent}

\* in this step the broadcast of caller c ends (and, for a round, the
\* second one may begin)
EndsBroadcast(c) ==
    /\ broadcasts[c].busy
    /\ ~broadcasts'[c].busy \/ (broadcasts[c].again /\ ~broadcasts'[c].again)

\* C11: a broadcast has called send_json for every connection that was in
\* manager.active_connections from its beginning to its end, whatever
\* connected or disconnected while it was suspended in a send.
C11_EveryObserverIsSent ==
    [][\A c \in Callers :
        EndsBroadcast(c) => broadcasts[c].stayed \subseteq Attempted(broadcasts[c])]_vars

C16_OnePayloadPerBroadcast ==
    \A c \in Callers : \A e, f \in broadcasts[c].sent : e.payload = f.payload

\* C16 witness: a broadcast is in its second send and a round has replaced
\* state.url_statuses since it began
C16_Witness ==
    \E c \in Callers :
        /\ broadcasts[c].busy
        /\ Cardinality(broadcasts[c].sent) = 2
        /\ broadcasts[c].payload.urls # url_statuses

\* C18: a websocket for which a send has raised, in a broadcast or in
\* connect, is in the end no longer in manager.active_connections.
C18_FailedIsDropped ==
    \A w \in Sockets :
        (endpoints[w] = "raised" \/ \E c \in Callers : w \in broadcasts[c].failed)
            ~> (w \notin AsSet(active_connections))

\* C14: neither monitor_system nor monitor_urls ever ends, whatever fails
\* in a pass: a probe, log_check, get_uptime_stats, psutil or a send.
C14_LoopsNeverEnd ==
    terminated = {}

\* round r holds its complete result: one entry per target it probes, each
\* with its uptime stats
Complete(r) ==
    /\ Len(rounds[r].results) = Len(rounds[r].tasks)
    /\ \A i \in 1..Len(rounds[r].tasks) :
        /\ rounds[r].results[i].name = rounds[r].tasks[i].name
        /\ rounds[r].results[i].status \in {"up", "down"}
        /\ rounds[r].results[i].uptime # NoUptime

\* s holds the elements of t, each once, in some order
IsPermutation(s, t) ==
    /\ Len(s) = Len(t)
    /\ \A x \in AsSet(s) \cup AsSet(t) :
        Cardinality({i \in 1..Len(s) : s[i] = x})
            = Cardinality({i \in 1..Len(t) : t[i] = x})

\* C15: state.url_statuses changes only to the complete result list of one
\* round (the empty list for a round over no target) or to itself without
\* the entries of one target; a step in which a round fails leaves it as it
\* is.  So every value it takes is one round's complete result, less the
\* targets filtered out since.
C15_OneRoundPerList ==
    [][\/ url_statuses' = url_statuses
       \/ \E r \in Rounds :
            /\ rounds[r].pc = "publish"
            /\ Complete(r)
            /\ IsPermutation(url_statuses', rounds[r].results)
       \/ \E r \in Rounds :
            /\ rounds[r].pc = "idle" /\ CLIENT_URLS = <<>>
            /\ url_statuses' = <<>>
       \/ \E q \in Requests :
            /\ requests[q].op = "delete"
            /\ url_statuses' = SelectSeqBy(url_statuses, requests[q].name)]_vars

\* C15 witness: of two rounds that overlap, the second to start has
\* published both its results and the first is about to publish other ones
C15_Witness ==
    /\ started = 2
    /\ rounds[1].pc = "publish"
    /\ Len(url_statuses) = 2
    /\ url_statuses # SortDownFirst(rounds[1].results)

\* round r holds a result of a transport failure for the target name
FailedIn(r, name) ==
    \E i \in 1..Len(rounds[r].results) :
        /\ rounds[r].results[i].name = name
        /\ rounds[r].results[i].status = "down"
        /\ rounds[r].results[i].status_code = 0

\* C19: when a probe ends in a transport failure, the test of
\* previous_url_statuses and its update are one step: a target not down
\* before gets one alert and is down after, and a target for which an
\* overlapping round has already had a transport failure gets none.
C19_OneAlertWhenOverlapping ==
    [][\A r \in Rounds : \A i \in 1..NumNames :
        ProbeDone(r, i, Failure("timeout"), FALSE) =>
            LET name == rounds[r].tasks[i].name
            IN  /\ previous_url_statuses[name] # "down" =>
                    /\ alerts'[name] = alerts[name] + 1
                    /\ previous_url_statuses'[name] = "down"
                /\ (\E o \in InFlight \ {r} : FailedIn(o, name)) =>
                    alerts'[name] = alerts[name]]_vars

\* C19 witness: two rounds in flight have both had a transport failure for
\* the first target, and one alert has been created for it
C19_Witness ==
    /\ InFlight = {1, 2}
    /\ FailedIn(1, NamePool[1]) /\ FailedIn(2, NamePool[1])
    /\ alerts[NamePool[1]] = 1

====
